---- MODULE Spec2Model ----
(***************************************************************************)
(* UNEEK vs Ralawise catalogue reconciliation scripts:                     *)
(*   scripts/catalogue_analysis.py                                         *)
(*   scripts/discover_local_schema_and_overlaps.py                         *)
(*   scripts/verify_uneek_data.py                                          *)
(*                                                                         *)
(* A Python str is a sequence of one-character strings, so that strip,     *)
(* upper, lower, the regular-expression filter of normalize_name and the   *)
(* substring test are computed character by character.  Python's None and  *)
(* a key that is missing from a dict are two distinguished values.         *)
(***************************************************************************)
EXTENDS Integers, Sequences, FiniteSets, TLC

\* ------------------------------------------------------------------------
\* Bounds of the model
\* ------------------------------------------------------------------------
MaxItems == 2
MaxRows == 2
MaxNameLen == 4

\* ------------------------------------------------------------------------
\* Python values
\* ------------------------------------------------------------------------
None == <<"<None>">>
Missing == <<"<missing>">>
EmptyStr == <<>>

LowerChars == <<"a","b","c","d","e","f","g","h","i","j","k","l","m","n","o","p","q","r","s","t","u","v","w","x","y","z">>
UpperChars == <<"A","B","C","D","E","F","G","H","I","J","K","L","M","N","O","P","Q","R","S","T","U","V","W","X","Y","Z">>
DigitChars == <<"0","1","2","3","4","5","6","7","8","9">>
\* the characters of the model in code point order (32, 33, 39, 44, 45, 46, 47, 48.., 65.., 95, 97..)
CharOrder == <<" ","!","'",",","-",".","/","0","1","2","3","4","5","6","7","8","9","A","B","C","D","E","F","G","H","I","J","K","L","M","N","O","P","Q","R","S","T","U","V","W","X","Y","Z","_","a","b","c","d","e","f","g","h","i","j","k","l","m","n","o","p","q","r","s","t","u","v","w","x","y","z">>

Range(s) == {s[i] : i \in DOMAIN s}
Chars == Range(CharOrder)
IndexIn(c, s) == CHOOSE i \in DOMAIN s : s[i] = c

OrdOf == [c \in Chars |-> IndexIn(c, CharOrder)]
LowerOf == [c \in Chars |-> IF c \in Range(UpperChars) THEN LowerChars[IndexIn(c, UpperChars)] ELSE c]
UpperOf == [c \in Chars |-> IF c \in Range(LowerChars) THEN UpperChars[IndexIn(c, LowerChars)] ELSE c]
IsSpace(c) == c = " "
IsDigit(c) == c \in Range(DigitChars)
IsLowerAlnum(c) == c \in Range(LowerChars) \/ IsDigit(c)

\* bool(v) of a str-or-None value
Truthy(v) == v # None /\ v # Missing /\ v # EmptyStr
\* d.get(k) and d.get(k, default)
DictGet(d, k) == IF d[k] = Missing THEN None ELSE d[k]
DictGetDefault(d, k, default) == IF d[k] = Missing THEN default ELSE d[k]

\* str(v)
PyStr(v) == IF v = None THEN <<"N","o","n","e">> ELSE v

\* str.lower(), str.upper()
PyLower(s) == [i \in DOMAIN s |-> LowerOf[s[i]]]
PyUpper(s) == [i \in DOMAIN s |-> UpperOf[s[i]]]

\* str.strip(): drop leading and trailing whitespace
RECURSIVE LStrip(_)
LStrip(s) == IF s # <<>> /\ IsSpace(Head(s)) THEN LStrip(Tail(s)) ELSE s
RECURSIVE RStrip(_)
RStrip(s) == IF s # <<>> /\ IsSpace(s[Len(s)]) THEN RStrip(SubSeq(s, 1, Len(s) - 1)) ELSE s
PyStrip(s) == RStrip(LStrip(s))

\* str.isdigit()
PyIsDigit(s) == s # <<>> /\ \A i \in DOMAIN s : IsDigit(s[i])

\* a in b  for two str
IsSubstr(a, b) == \E i \in 0..(Len(b) - Len(a)) : SubSeq(b, i + 1, i + Len(a)) = a

\* sorted() compares str by code points
StrLess(a, b) ==
    \E k \in 1..(Len(a) + 1) :
        /\ k <= Len(b)
        /\ \A j \in 1..(k - 1) : a[j] = b[j]
        /\ (k = Len(a) + 1 \/ OrdOf[a[k]] < OrdOf[b[k]])
IsSorted(l) == \A i \in 1..(Len(l) - 1) : StrLess(l[i], l[i + 1])
PySorted(S) == CHOOSE l \in [1..Cardinality(S) -> S] : Range(l) = S /\ IsSorted(l)
\* the orders in which iterating a set of str can yield its elements
\* (str hashes are randomized per process)
IterationOrders(S) == {l \in [1..Cardinality(S) -> S] : Range(l) = S}

SeqsUpTo(P, n) == UNION {[1..k -> P] : k \in 0..n}

\* ------------------------------------------------------------------------
\* catalogue_analysis.py : normalize_name
\* ------------------------------------------------------------------------
\* re.sub(r"[^a-z0-9\s]", "", ...) keeps exactly these characters
KeepChar(c) == IsLowerAlnum(c) \/ IsSpace(c)

\* the index of the first whitespace of s, Len(s) + 1 when there is none
FirstSpace(s) ==
    IF \E i \in DOMAIN s : IsSpace(s[i])
    THEN CHOOSE i \in DOMAIN s : IsSpace(s[i]) /\ \A j \in 1..(i - 1) : ~IsSpace(s[j])
    ELSE Len(s) + 1

\* str.split(): the maximal runs of non-whitespace
RECURSIVE PySplit(_)
PySplit(s) ==
    LET t == LStrip(s)
    IN  IF t = <<>> THEN <<>>
        ELSE <<SubSeq(t, 1, FirstSpace(t) - 1)>> \o PySplit(SubSeq(t, FirstSpace(t), Len(t)))

\* " ".join(words)
RECURSIVE PyJoin(_)
PyJoin(words) ==
    IF words = <<>> THEN <<>>
    ELSE IF Len(words) = 1 THEN words[1]
    ELSE words[1] \o <<" ">> \o PyJoin(Tail(words))

\* normalize_name without the split and join that collapse the whitespace
normalize_keeping_blanks(s) ==
    IF ~Truthy(s) THEN EmptyStr
    ELSE SelectSeq(PyLower(s), KeepChar)

normalize_name(s) ==
    IF ~Truthy(s) THEN EmptyStr
    ELSE PyJoin(PySplit(SelectSeq(PyLower(s), KeepChar)))

\* ------------------------------------------------------------------------
\* Python dict as the sequence of its (key, value) entries in insertion
\* order: assigning to a key that is present replaces the value in place
\* ------------------------------------------------------------------------
HasKey(d, k) == \E i \in DOMAIN d : d[i].key = k
DictPut(d, k, v) ==
    IF HasKey(d, k)
    THEN [i \in DOMAIN d |-> IF d[i].key = k THEN [key |-> k, value |-> v] ELSE d[i]]
    ELSE Append(d, [key |-> k, value |-> v])
DictKeys(d) == {d[i].key : i \in DOMAIN d}

\* ------------------------------------------------------------------------
\* Inputs: the records of uneek_products_clean.json and the rows of the
\* Ralawise products table.  The pools hold clean records, records whose
\* fields are missing, null, empty or whitespace-only, records that differ
\* only in case or padding, and records that share a normalized name.
\* ------------------------------------------------------------------------
UneekItem(pcode, scode, ean, name, cat) ==
    [ProductCode |-> pcode, ShortCode |-> scode, EAN |-> ean, ProductName |-> name, Category |-> cat]
RalawiseRow(sku, style, name) ==
    [sku_code |-> sku, style_code |-> style, style_name |-> name]

U1 == UneekItem(<<"G","R","1","1">>, <<"G","R","1","1","B","G","X","S">>, <<"5","0","1","2","3","4","5","6","7","8","9","0","1">>, <<"C","l","a","s","s","i","c"," ","P","o","l","o">>, <<"P","o","l","o">>)
U2 == UneekItem(Missing, <<" ">>, <<" ">>, <<"a","b">>, Missing)
U3 == UneekItem(<<"g","r","1","1"," ">>, <<"g","r","1","1","b","g","x","s">>, <<"7","7">>, <<"C","L","A","S","S","I","C"," "," ","P","O","L","O","!">>, <<"P","o","l","o">>)
U4 == UneekItem(<<"G","R","9","9">>, <<"G","R","1","2">>, <<"7","7">>, <<"B","l","u","e"," ","P","o","l","o"," ","S","h","i","r","t">>, <<"T","e","e","s">>)
U5 == UneekItem(None, None, None, None, <<"T","e","e","s">>)
U6 == UneekItem(<<"G","R","1","2">>, <<"G","R","1","2","B","G","X","S">>, <<"0","7","7">>, <<"P","o","l","o"," ","S","h","i","r","t">>, <<"P","o","l","o">>)
UneekPool == {U1, U2, U3, U4, U5}

R1 == RalawiseRow(<<"G","R","1","1","B","G","X","S">>, <<"G","R","9","9">>, <<"c","l","a","s","s","i","c"," ","p","o","l","o"," ","s","h","i","r","t">>)
R2 == RalawiseRow(<<>>, <<" ">>, <<"C","L","A","S","S","I","C"," ","P","O","L","O">>)
R3 == RalawiseRow(<<"5","0","1","2","3","4","5","6","7","8","9","0","1">>, <<"g","r","1","1">>, <<"C","l","a","s","s","i","c"," ","P","o","l","o">>)
R4 == RalawiseRow(<<"g","r","1","2"," ">>, <<"G","R","1","1">>, <<"P","o","l","o"," ","S","h","i","r","t">>)
R5 == RalawiseRow(<<"7","7">>, <<"B","P","1">>, <<"B","l","u","e"," ","P","o","l","o">>)
R6 == RalawiseRow(None, <<"G","R","1","2">>, None)
R7 == RalawiseRow(<<"G","R","1","2">>, <<>>, <<"A","B">>)
\* the LEFT JOIN finds no styles row for a NULL style_code
R8 == RalawiseRow(<<"Z","Z","9">>, None, None)
RalawisePool == {R1, R2, R3, R4, R5, R6, R7, R8}

\* ralawise_data: None, or the dict that fetch_ralawise_catalogue returns
NoRalawiseData == [is_none |-> TRUE, products |-> <<>>]
RalawiseData(products) == [is_none |-> FALSE, products |-> products]

\* ------------------------------------------------------------------------
\* catalogue_analysis.py : find_similarities
\* ------------------------------------------------------------------------
\* r["sku_code"].strip() and p.get("ProductCode", "").strip() raise
\* AttributeError on None
SimilaritiesRaises(products, ral) ==
    \/ \E i \in DOMAIN ral : ral[i].sku_code = None
    \/ \E i \in DOMAIN products : DictGetDefault(products[i], "ProductCode", EmptyStr) = None

ralawise_skus(ral) == {PyUpper(PyStrip(ral[i].sku_code)) : i \in DOMAIN ral}
ralawise_raw_skus(ral) == {ral[i].sku_code : i \in DOMAIN ral}
ralawise_style_codes(ral) ==
    {PyUpper(PyStrip(ral[i].style_code)) : i \in {j \in DOMAIN ral : Truthy(ral[j].style_code)}}

RECURSIVE RalawiseNamesFrom(_, _)
RalawiseNamesFrom(ral, d) ==
    IF ral = <<>> THEN d
    ELSE RalawiseNamesFrom(Tail(ral),
            IF Truthy(Head(ral).style_name)
            THEN DictPut(d, normalize_name(Head(ral).style_name), Head(ral))
            ELSE d)
ralawise_style_names_norm(ral) == RalawiseNamesFrom(ral, <<>>)

uneek_eans(products) ==
    {PyStrip(DictGetDefault(products[i], "EAN", EmptyStr)) :
        i \in {j \in DOMAIN products : Truthy(DictGet(products[j], "EAN"))}}
uneek_shortcodes(products) ==
    {PyUpper(PyStrip(DictGetDefault(products[i], "ShortCode", EmptyStr))) :
        i \in {j \in DOMAIN products : Truthy(DictGet(products[j], "ShortCode"))}}
uneek_product_codes(products) ==
    {PyUpper(PyStrip(DictGetDefault(products[i], "ProductCode", EmptyStr))) : i \in DOMAIN products}

RECURSIVE UneekNamesFrom(_, _)
UneekNamesFrom(products, d) ==
    IF products = <<>> THEN d
    ELSE UneekNamesFrom(Tail(products),
            DictPut(d, normalize_name(DictGetDefault(Head(products), "ProductName", EmptyStr)), Head(products)))
uneek_product_names_norm(products) == UneekNamesFrom(products, <<>>)

\* the values the three exact-match loops append, as sets
EanMatches(products, ral) ==
    {e \in uneek_eans(products) : e \in ralawise_skus(ral) \/ e \in ralawise_raw_skus(ral)}
ShortcodeMatches(products, ral) == uneek_shortcodes(products) \cap ralawise_skus(ral)
StyleCodeMatches(products, ral) == uneek_product_codes(products) \cap ralawise_style_codes(ral)

\* the condition of the inner loop of the fuzzy pass
NamesMatch(norm_name, ral_name) ==
    norm_name = ral_name \/ IsSubstr(norm_name, ral_name) \/ IsSubstr(ral_name, norm_name)

FuzzyPair(uneek_p, ral_p) ==
    [uneek |-> uneek_p.ProductName,
     ralawise |-> DictGetDefault(ral_p, "style_name", EmptyStr),
     uneek_code |-> DictGet(uneek_p, "ProductCode"),
     ralawise_style |-> DictGet(ral_p, "style_code")]

\* the guard without its length test
SkipNameNoMinLen(norm_name) == norm_name = EmptyStr

\* the guard  if not norm_name or len(norm_name) < 5: continue
SkipName(norm_name) == norm_name = EmptyStr \/ Len(norm_name) < 5

\* the inner loop without its break: every B-side entry that matches
PartnersOfNoBreak(entry, bdict) ==
    LET hits == {i \in DOMAIN bdict : NamesMatch(entry.key, bdict[i].key)}
    IN  [k \in 1..Cardinality(hits) |->
            FuzzyPair(entry.value,
                      bdict[CHOOSE i \in hits : Cardinality({j \in hits : j < i}) = k - 1].value)]

\* the inner loop: the first B-side entry that matches, then break
PartnersOf(entry, bdict) ==
    LET hits == {i \in DOMAIN bdict : NamesMatch(entry.key, bdict[i].key)}
    IN  IF hits = {} THEN <<>>
        ELSE LET first == CHOOSE i \in hits : \A j \in hits : i <= j
             IN  <<FuzzyPair(entry.value, bdict[first].value)>>

RECURSIVE FuzzyMatches(_, _)
FuzzyMatches(adict, bdict) ==
    IF adict = <<>> THEN <<>>
    ELSE (IF SkipName(Head(adict).key) THEN <<>> ELSE PartnersOf(Head(adict), bdict))
         \o FuzzyMatches(Tail(adict), bdict)

AllMatchKeys == {"by_ean", "by_shortcode_sku", "by_style_code", "by_product_name_fuzzy"}
\* the empty dict returned when there is no ralawise_data
EmptyMatches ==
    [keys |-> {}, by_ean |-> <<>>, by_shortcode_sku |-> <<>>, by_style_code |-> <<>>,
     by_product_name_fuzzy |-> <<>>]
\* similarities.get(k, [])
MatchesGet(m, k) == IF k \in m.keys THEN m[k] ELSE <<>>

\* the results find_similarities can return: the exact-match lists are
\* filled by iterating over sets
find_similarities(products, data) ==
    IF data.is_none THEN {EmptyMatches}
    ELSE {[keys |-> AllMatchKeys,
           by_ean |-> e, by_shortcode_sku |-> s, by_style_code |-> c,
           by_product_name_fuzzy |->
               FuzzyMatches(uneek_product_names_norm(products),
                            ralawise_style_names_norm(data.products))] :
            e \in IterationOrders(EanMatches(products, data.products)),
            s \in IterationOrders(ShortcodeMatches(products, data.products)),
            c \in IterationOrders(StyleCodeMatches(products, data.products))}

\* ------------------------------------------------------------------------
\* catalogue_analysis.py : analyze_uneek_structure
\* ------------------------------------------------------------------------
CategoryOf(p) == DictGetDefault(p, "Category", <<"N","/","A">>)
analyze_uneek_structure(products) ==
    LET cats == {CategoryOf(products[i]) : i \in DOMAIN products}
        codes == {DictGet(products[i], "ProductCode") : i \in DOMAIN products}
    IN  [total_skus |-> Len(products),
         categories |-> [c \in cats |-> Cardinality({i \in DOMAIN products : CategoryOf(products[i]) = c})],
         unique_product_codes |-> codes,
         unique_product_names |-> {DictGet(products[i], "ProductName") : i \in DOMAIN products},
         unique_eans |-> {PyStr(DictGetDefault(products[i], "EAN", EmptyStr)) : i \in DOMAIN products},
         unique_shortcodes |-> {DictGetDefault(products[i], "ShortCode", EmptyStr) : i \in DOMAIN products},
         unique_styles |-> Cardinality(codes)]

\* ------------------------------------------------------------------------
\* catalogue_analysis.py : integration_assessment
\* ------------------------------------------------------------------------
\* an entry of the issues list: the text and the values formatted into it
Issue(tag, count, cats) == [tag |-> tag, count |-> count, cats |-> cats]

\* the count with the fuzzy name pairs added in
dup_count_with_fuzzy(sim) ==
    Len(MatchesGet(sim, "by_ean")) + Len(MatchesGet(sim, "by_shortcode_sku"))
        + Len(MatchesGet(sim, "by_style_code")) + Len(MatchesGet(sim, "by_product_name_fuzzy"))

dup_count(sim) ==
    Len(MatchesGet(sim, "by_ean")) + Len(MatchesGet(sim, "by_shortcode_sku"))
        + Len(MatchesGet(sim, "by_style_code"))

integration_assessment(uneek_stats, data, sim) ==
    LET issues3 == <<Issue("no_supplier_id", 0, {}),
                     Issue("identifier_schemes", 0, {}),
                     Issue("category_mapping", 0, DOMAIN uneek_stats.categories)>>
        recs3 == <<"add_suppliers_table", "supplier_prefixes", "category_mapping_table">>
    IN  IF dup_count(sim) > 0
        THEN [issues |-> Append(issues3, Issue("overlaps", dup_count(sim), {})),
              recommendations |-> Append(recs3, "multi_supplier_sku")]
        ELSE [issues |-> issues3,
              recommendations |-> Append(recs3, "add_as_new")]

NoAssessment == [issues |-> <<>>, recommendations |-> <<>>]

\* ------------------------------------------------------------------------
\* The local store as verify_local_db_load sees it: unreachable (connect or
\* a query raises, with the driver's message), or the sku_code column of
\* the rows of its products table
\* ------------------------------------------------------------------------
SKU1 == <<"G","R","1","1","B","G","X","S">>
SKU2 == <<"g","r","1","1","b","g","x","s"," ">>
SKU3 == <<"5","0","1","2","3","4","5","6","7","8","9","0","1">>
SKU4 == <<"7","7">>
SKU5 == <<"Z","Z","9">>
ConnRefused == <<"c","o","n","n","e","c","t","i","o","n"," ","r","e","f","u","s","e","d">>
NotInstalledLong == <<"p","s","y","c","o","p","g","2"," ","n","o","t"," ","i","n","s","t","a","l","l","e","d"," ","-"," ","p","i","p"," ","i","n","s","t","a","l","l"," ","p","s","y","c","o","p","g","2","-","b","i","n","a","r","y">>
NotInstalled == <<"p","s","y","c","o","p","g","2"," ","n","o","t"," ","i","n","s","t","a","l","l","e","d">>
NoneTypeError == <<"'","N","o","n","e","T","y","p","e","'"," ","o","b","j","e","c","t"," ","h","a","s"," ","n","o"," ","a","t","t","r","i","b","u","t","e"," ","'","i","s","d","i","g","i","t","'">>
Skipped == <<"S","k","i","p","p","e","d">>
SkuPool == {SKU1, SKU2, SKU3, SKU4, SKU5, None}
FailureReasons == {EmptyStr, ConnRefused}
ReadableStore(rows) == [reachable |-> TRUE, reason |-> EmptyStr, rows |-> rows]
DownStore(reason) == [reachable |-> FALSE, reason |-> reason, rows |-> <<>>]
LocalStores ==
    {ReadableStore(r) : r \in SeqsUpTo(SkuPool, MaxRows)} \cup {DownStore(x) : x \in FailureReasons}

\* ------------------------------------------------------------------------
\* catalogue_analysis.py : verify_local_db_load
\* ------------------------------------------------------------------------
NoDbResult ==
    [is_none |-> TRUE, expected_skus |-> 0, products_count |-> 0,
     matching_shortcodes |-> 0, matching_eans |-> 0]
VerifyReturn(result, expected, e) == [db_result |-> result, expected |-> expected, err |-> e]

verify_eans(products) ==
    {PyStr(DictGetDefault(products[i], "EAN", EmptyStr)) :
        i \in {j \in DOMAIN products : Truthy(DictGet(products[j], "EAN"))}}
verify_shortcodes(products) ==
    {DictGetDefault(products[i], "ShortCode", EmptyStr) :
        i \in {j \in DOMAIN products : Truthy(DictGet(products[j], "ShortCode"))}}
db_skus(st) == {st.rows[i] : i \in DOMAIN st.rows}
IsEan13(s) == s # None /\ PyIsDigit(s) /\ Len(s) = 13

DbResult(products, st, with_eans) ==
    [is_none |-> FALSE,
     expected_skus |-> Len(products),
     products_count |-> Len(st.rows),
     matching_shortcodes |-> Cardinality(db_skus(st) \cap verify_shortcodes(products)),
     matching_eans |-> IF with_eans THEN Cardinality(db_skus(st) \cap verify_eans(products)) ELSE 0]

\* verify_local_db_load with a handler that swallows the failure and goes on
\* with an empty store
verify_swallowing_failure(products, haspg, st) ==
    IF ~haspg THEN {VerifyReturn(NoDbResult, Len(products), NotInstalledLong)}
    ELSE {VerifyReturn(DbResult(products, st, FALSE), Len(products), None)}

\* the returns of verify_local_db_load.  any(...) walks db_skus in set
\* order and stops at the first 13-digit code; s.isdigit() raises on a NULL
\* sku_code that is met before one
verify_local_db_load(products, haspg, st) ==
    IF ~haspg THEN {VerifyReturn(NoDbResult, Len(products), NotInstalledLong)}
    ELSE IF ~st.reachable THEN {VerifyReturn(NoDbResult, Len(products), st.reason)}
    ELSE LET hit == \E s \in db_skus(st) : IsEan13(s)
             ok == VerifyReturn(DbResult(products, st, hit), Len(products), None)
             failed == VerifyReturn(NoDbResult, Len(products), NoneTypeError)
         IN  IF None \in db_skus(st)
             THEN (IF hit THEN {ok, failed} ELSE {failed})
             ELSE {ok}

\* the verdict with a partial branch that wants fewer rows than expected: a
\* store with more rows than expected gets no verdict
report_without_surplus(result, exp, e) ==
    IF Truthy(e) THEN "could_not_verify"
    ELSE IF ~result.is_none
         THEN (IF result.products_count = exp THEN "complete"
               ELSE IF result.products_count > 0 /\ result.products_count < exp THEN "partial"
               ELSE IF result.products_count = 0 THEN "absent"
               ELSE "none")
         ELSE "no_db_result"

\* catalogue_analysis.py main, step 2: what is printed about the load
report_load_status(result, exp, e) ==
    IF Truthy(e) THEN "could_not_verify"
    ELSE IF ~result.is_none
         THEN (IF result.products_count = exp THEN "complete"
               ELSE IF result.products_count > 0 THEN "partial"
               ELSE "absent")
         ELSE "no_db_result"

\* ------------------------------------------------------------------------
\* discover_local_schema_and_overlaps.py : the local store.  A table has a
\* name, its column names in ordinal order, its rows (column name -> value)
\* and whether a SELECT from it fails.
\* ------------------------------------------------------------------------
ColProductCode == <<"P","r","o","d","u","c","t","C","o","d","e">>
ColShortCode == <<"s","h","o","r","t","_","c","o","d","e">>
ColEan == <<"E","A","N">>
ColTaxCode == <<"t","a","x","_","c","o","d","e">>
ColSkuCode == <<"s","k","u","_","c","o","d","e">>
KeyProductCode == <<"p","r","o","d","u","c","t","c","o","d","e">>
KeyProductCodeU == <<"p","r","o","d","u","c","t","_","c","o","d","e">>
KeyShortCode == <<"s","h","o","r","t","c","o","d","e">>
KeyShortCodeU == <<"s","h","o","r","t","_","c","o","d","e">>
KeyEan == <<"e","a","n">>
KeyTaxCode == <<"t","a","x","c","o","d","e">>
KeyTaxCodeU == <<"t","a","x","_","c","o","d","e">>
TblProducts == <<"p","r","o","d","u","c","t","s">>
TblVariants == <<"p","r","o","d","u","c","t","_","v","a","r","i","a","n","t","s">>
TblTax == <<"t","a","x">>
TblBroken == <<"u","n","e","e","k","_","o","l","d">>
TblBrokenFirst == <<"e","a","n","_","o","l","d">>
NoSchemaMsg == <<"C","o","u","l","d"," ","n","o","t"," ","g","e","t"," ","s","c","h","e","m","a">>
QueryFailed == <<"p","e","r","m","i","s","s","i","o","n"," ","d","e","n","i","e","d">>
\* the driver's answer to a statement sent after a failed one: the connection
\* is not in autocommit mode and nothing rolls the transaction back
TxnAborted == <<"c","u","r","r","e","n","t"," ","t","r","a","n","s","a","c","t","i","o","n"," ","i","s"," ","a","b","o","r","t","e","d",","," ","c","o","m","m","a","n","d","s"," ","i","g","n","o","r","e","d"," ","u","n","t","i","l"," ","e","n","d"," ","o","f"," ","t","r","a","n","s","a","c","t","i","o","n"," ","b","l","o","c","k">>
LV1a == <<"G","R","1","1">>
LV1b == <<" ","G","R","1","1","B","G","X","S">>
LV1c == <<"0","0","0","5","0","1","2","3","4","5","6","7","8","9","0","1">>
LV2b == <<"g","r","1","2">>
LV2c == <<"0","0","0">>
LV3a == <<"G","R","9","9"," ">>
LV3c == <<" ","0","7","7"," ">>

LocalTable(name, cols, rows, fails) ==
    [name |-> name, columns |-> cols, rows |-> rows, query_fails |-> fails]
VariantCols == <<ColProductCode, ColShortCode, ColEan>>
VariantRow(a, b, c) == (ColProductCode :> a) @@ (ColShortCode :> b) @@ (ColEan :> c)
LV1 == VariantRow(LV1a, LV1b, LV1c)
LV2 == VariantRow(None, LV2b, LV2c)
LV3 == VariantRow(LV3a, EmptyStr, LV3c)
ProductsTable == LocalTable(TblProducts, <<ColSkuCode>>, <<>>, FALSE)
TaxTable == LocalTable(TblTax, <<ColTaxCode>>, <<>>, FALSE)
BrokenTable == LocalTable(TblBroken, <<ColEan>>, <<>>, TRUE)
BrokenFirstTable == LocalTable(TblBrokenFirst, <<ColEan>>, <<>>, TRUE)
VariantsTable == LocalTable(TblVariants, VariantCols, <<LV1, LV2, LV3>>, FALSE)
\* the tables in ORDER BY table_name order
LocalSchemas ==
    {<<>>,
     <<ProductsTable>>,
     <<VariantsTable, ProductsTable>>,
     <<VariantsTable, TaxTable, BrokenTable>>,
     <<BrokenFirstTable, VariantsTable, TaxTable>>,
     <<TaxTable, BrokenTable>>}
\* the catalogues the overlap run is tried on
DiscoverUneekPool == {U1, U2, U3, U6}
LiveRowPool == {R1, R2, R3, R4}

\* ------------------------------------------------------------------------
\* discover_local_schema_and_overlaps.py : discover_local_schema
\* ------------------------------------------------------------------------
NoSchema == [is_none |-> TRUE, tables |-> <<>>]
SchemaOf(tables) == [is_none |-> FALSE, tables |-> tables]
SchemaReturn(schema, e) == [schema |-> schema, err |-> e]

\* up: the connection and the catalogue queries succeed
discover_local_schema(haspg, up, reason, tables) ==
    IF ~haspg THEN SchemaReturn(NoSchema, NotInstalled)
    ELSE IF ~up THEN SchemaReturn(NoSchema, reason)
    ELSE SchemaReturn(SchemaOf(tables), None)

\* ------------------------------------------------------------------------
\* discover_local_schema_and_overlaps.py : get_local_uneek_identifiers
\* ------------------------------------------------------------------------
LowerNames(cols) == {PyLower(cols[i]) : i \in DOMAIN cols}
\* col_map.get(k1) or col_map.get(k2): the column as spelled in the table
ColumnFor(cols, k1, k2) ==
    IF \E i \in DOMAIN cols : PyLower(cols[i]) = k1
    THEN cols[CHOOSE i \in DOMAIN cols : PyLower(cols[i]) = k1 /\ \A j \in DOMAIN cols : PyLower(cols[j]) = k1 => j <= i]
    ELSE IF \E i \in DOMAIN cols : PyLower(cols[i]) = k2
    THEN cols[CHOOSE i \in DOMAIN cols : PyLower(cols[i]) = k2 /\ \A j \in DOMAIN cols : PyLower(cols[j]) = k2 => j <= i]
    ELSE None
UneekLike(cols) ==
    LowerNames(cols) \cap {KeyProductCode, KeyProductCodeU, KeyShortCode, KeyShortCodeU,
                           KeyEan, KeyTaxCode, KeyTaxCodeU} # {}

\* str.lstrip("0")
RECURSIVE LStripZeros(_)
LStripZeros(s) == IF s # <<>> /\ Head(s) = "0" THEN LStripZeros(Tail(s)) ELSE s
\* str(v).strip().lstrip("0") or str(v).strip()
StoredEan(v) ==
    IF LStripZeros(PyStrip(PyStr(v))) # EmptyStr THEN LStripZeros(PyStrip(PyStr(v)))
    ELSE PyStrip(PyStr(v))

NoLocalResult ==
    [is_none |-> TRUE, table |-> None, columns_used |-> <<>>, product_codes |-> {},
     shortcodes |-> {}, eans |-> {}, row_count |-> 0, error |-> None]
EmptyLocalResult == [NoLocalResult EXCEPT !.is_none = FALSE]

\* the values of column col (None: no such column) over the rows that hold a
\* truthy value there
ColumnValues(rows, col) ==
    IF col = None THEN {}
    ELSE {rows[i][col] : i \in {j \in DOMAIN rows : Truthy(rows[j][col])}}

\* the loop over schema["columns"].items().  aborted: a SELECT of this
\* connection has failed, and every later one fails with it
RECURSIVE ScanTables(_, _, _)
ScanTables(tables, result, aborted) ==
    IF tables = <<>> THEN result
    ELSE LET t == Head(tables)
             pc_col == ColumnFor(t.columns, KeyProductCode, KeyProductCodeU)
             sc_col == ColumnFor(t.columns, KeyShortCode, KeyShortCodeU)
             ean_col == ColumnFor(t.columns, KeyEan, KeyEan)
             select_cols == SelectSeq(<<pc_col, sc_col, ean_col>>, Truthy)
             r1 == [result EXCEPT !.table = t.name, !.columns_used = @ \o select_cols]
         IN  IF ~UneekLike(t.columns) THEN ScanTables(Tail(tables), result, aborted)
             ELSE IF select_cols = <<>> THEN ScanTables(Tail(tables), r1, aborted)
             ELSE IF aborted
                  THEN ScanTables(Tail(tables), [r1 EXCEPT !.error = TxnAborted], TRUE)
             ELSE IF t.query_fails
                  THEN ScanTables(Tail(tables), [r1 EXCEPT !.error = QueryFailed], TRUE)
             ELSE [r1 EXCEPT
                     !.row_count = Len(t.rows),
                     !.product_codes = {PyStrip(PyStr(v)) : v \in ColumnValues(t.rows, pc_col)},
                     !.shortcodes = {PyStrip(PyStr(v)) : v \in ColumnValues(t.rows, sc_col)},
                     !.eans = {StoredEan(v) : v \in ColumnValues(t.rows, ean_col)}]

LocalReturn(raised, result, e) == [raised |-> raised, result |-> result, err |-> e]

\* up1: the nested discover_local_schema succeeds; up2: the second
\* psycopg2.connect, which is outside any try, succeeds
get_local_uneek_identifiers(haspg, up1, up2, reason, tables) ==
    LET d == discover_local_schema(haspg, up1, reason, tables)
    IN  IF ~haspg THEN LocalReturn(FALSE, NoLocalResult, NotInstalled)
        ELSE IF Truthy(d.err) \/ d.schema.is_none
             THEN LocalReturn(FALSE, NoLocalResult, IF Truthy(d.err) THEN d.err ELSE NoSchemaMsg)
        ELSE IF ~up2 THEN LocalReturn(TRUE, NoLocalResult, None)
        ELSE LocalReturn(FALSE, ScanTables(d.schema.tables, EmptyLocalResult, FALSE), None)

\* ------------------------------------------------------------------------
\* discover_local_schema_and_overlaps.py : fetch_ralawise_identifiers,
\* load_uneek_identifiers, find_overlaps
\* ------------------------------------------------------------------------
NoIds == [is_none |-> TRUE, style_codes |-> {}, sku_codes |-> {}]
IdsReturn(ids, e) == [ids |-> ids, err |-> e]

\* rows: the Live rows of the production products table
fetch_ralawise_identifiers(haspg, up, reason, rows) ==
    IF ~haspg THEN IdsReturn(NoIds, NotInstalled)
    ELSE IF ~up THEN IdsReturn(NoIds, reason)
    ELSE IdsReturn(
            [is_none |-> FALSE,
             style_codes |-> {PyStrip(PyStr(rows[i].style_code)) :
                                i \in {j \in DOMAIN rows : rows[j].style_code # None}},
             sku_codes |-> {PyStrip(PyStr(rows[i].sku_code)) : i \in DOMAIN rows}],
            None)

TruthyField(products, f) ==
    {PyStrip(PyStr(products[i][f])) : i \in {j \in DOMAIN products : Truthy(DictGet(products[j], f))}}
load_uneek_identifiers(products) ==
    [product_codes |-> TruthyField(products, "ProductCode"),
     shortcodes |-> TruthyField(products, "ShortCode"),
     eans |-> TruthyField(products, "EAN")]
NoUneekIds == [product_codes |-> {}, shortcodes |-> {}, eans |-> {}]

\* find_overlaps with the reverse check made against the sku codes
find_overlaps_reverse_by_sku(u_ids, r_ids) ==
    [product_code_in_ralawise_style_codes |-> PySorted(u_ids.product_codes \cap r_ids.style_codes),
     shortcode_in_ralawise_sku_codes |-> PySorted(u_ids.shortcodes \cap r_ids.sku_codes),
     ean_in_ralawise_sku_codes |-> PySorted(u_ids.eans \cap r_ids.sku_codes),
     ralawise_style_code_in_uneek_product_codes |-> PySorted(r_ids.sku_codes \cap u_ids.product_codes)]

find_overlaps(u_ids, r_ids) ==
    [product_code_in_ralawise_style_codes |-> PySorted(u_ids.product_codes \cap r_ids.style_codes),
     shortcode_in_ralawise_sku_codes |-> PySorted(u_ids.shortcodes \cap r_ids.sku_codes),
     ean_in_ralawise_sku_codes |-> PySorted(u_ids.eans \cap r_ids.sku_codes),
     ralawise_style_code_in_uneek_product_codes |-> PySorted(r_ids.style_codes \cap u_ids.product_codes)]
NoOverlaps ==
    [product_code_in_ralawise_style_codes |-> <<>>, shortcode_in_ralawise_sku_codes |-> <<>>,
     ean_in_ralawise_sku_codes |-> <<>>, ralawise_style_code_in_uneek_product_codes |-> <<>>]
total_overlap(o) ==
    Len(o.product_code_in_ralawise_style_codes) + Len(o.shortcode_in_ralawise_sku_codes)
        + Len(o.ean_in_ralawise_sku_codes) + Len(o.ralawise_style_code_in_uneek_product_codes)

\* ------------------------------------------------------------------------
\* verify_uneek_data.py : the catalogues and the two stores
\* ------------------------------------------------------------------------
KeyShortCodeCsv == "Short Code"
KeyProductCodeCsv == "Product Code"
CsvRow(sc, pcode) == (KeyShortCodeCsv :> sc) @@ (KeyProductCodeCsv :> pcode)
CR1 == CsvRow(SKU1, <<"G","R","1","1">>)
CR2 == CsvRow(<<" ","Z","Z","9"," ">>, None)
CR3 == CsvRow(EmptyStr, <<"G","R","9","9">>)
CsvRowPool == {CR1, CR2, CR3}
VerifyUneekPool == {U1, U2, U3}
\* the sku_code column of the UNEEK rows of the backup store, and the
\* short_code column of product_variants
BackupStores == {<<>>, <<SKU1>>, <<SKU1, SKU5>>, <<None>>, <<SKU2, None>>}
EcoStores == {<<>>, <<SKU1>>, <<SKU5, SKU1>>, <<None, EmptyStr>>}

\* (row.get(key) or "").strip(), added when it is not empty
CsvColumn(rows, key) ==
    {PyStrip(IF Truthy(rows[i][key]) THEN rows[i][key] ELSE EmptyStr) : i \in DOMAIN rows} \ {EmptyStr}
load_csv_shortcodes(rows) ==
    [shortcodes |-> CsvColumn(rows, KeyShortCodeCsv), product_codes |-> CsvColumn(rows, KeyProductCodeCsv)]
load_json_shortcodes(products) ==
    [shortcodes |-> {PyStrip(PyStr(DictGetDefault(products[i], "ShortCode", EmptyStr))) :
                        i \in {j \in DOMAIN products : Truthy(DictGet(products[j], "ShortCode"))}},
     product_codes |-> {PyStrip(PyStr(DictGetDefault(products[i], "ProductCode", EmptyStr))) :
                        i \in {j \in DOMAIN products : Truthy(DictGet(products[j], "ProductCode"))}}]

CodesReturn(codes, e) == [codes |-> codes, err |-> e]
\* up: the connection and the query succeed
get_backup_uneek_shortcodes(haspg, up, reason, rows) ==
    IF ~haspg THEN CodesReturn({}, NotInstalled)
    ELSE IF ~up THEN CodesReturn({}, reason)
    ELSE CodesReturn({PyStrip(rows[i]) : i \in {j \in DOMAIN rows : Truthy(rows[j])}}, None)
get_ecommerce_uneek_shortcodes(haspg, up, reason, rows) ==
    IF ~haspg THEN CodesReturn({}, NotInstalled)
    ELSE IF ~up THEN CodesReturn({}, reason)
    ELSE CodesReturn({PyStrip(PyStr(rows[i])) : i \in {j \in DOMAIN rows : Truthy(rows[j])}}, None)

\* the SUMMARY section: which verdict lines are printed
NoSummary == [printed |-> FALSE, backup |-> "none", backup_json |-> "none", eco |-> "none"]
\* e: the value of err when the section starts; again_err: the error of the
\* call of get_ecommerce_uneek_shortcodes in the condition of line 199
verify_summary(csv, json, backup, eco, e, again_err) ==
    [printed |-> TRUE,
     backup |-> IF e = None /\ backup # {}
                THEN (IF csv \ backup = {} THEN "ok" ELSE "gap")
                ELSE "none",
     backup_json |-> IF e = None /\ backup # {}
                     THEN (IF json \ backup = {} THEN "ok" ELSE "info")
                     ELSE "none",
     eco |-> IF eco # {} /\ ~Truthy(again_err)
             THEN (IF csv \ eco = {} THEN "ok" ELSE "gap")
             ELSE "none"]

\* ------------------------------------------------------------------------
\* State
\* ------------------------------------------------------------------------
VARIABLES
    pc,              \* the step of the run
    uneek_products,  \* the list load_uneek_json returned
    ralawise_data,   \* the catalogue passed to find_similarities
    similarities,    \* the dict find_similarities returned
    assessment,      \* the dict integration_assessment returned
    has_pg,          \* HAS_PG: the driver could be imported
    json_only,       \* --json-only was given
    store,           \* the local store
    db_result,       \* the three values verify_local_db_load returned
    expected,
    err,
    load_status,     \* the verdict main printed in step 2
    local_tables,    \* the tables of the local store
    live_rows,       \* the Live rows of the production products table
    schema,          \* discover script: the values of main's variables
    d_err,
    local_uneek,
    uneek_ids,
    ralawise_ids,
    ral_err,
    overlaps,
    result_line,     \* the RESULT line main printed
    name_in,         \* normalize_name: the argument s
    name_norm,       \* normalize_name(s)
    name_norm2,      \* normalize_name(normalize_name(s))
    csv_exists,      \* verify script: CSV_PATH.exists(), JSON_PATH.exists()
    json_exists,
    csv_rows,        \* the rows of BRA52-UneekProdData.csv
    backup_rows,     \* the sku_code values the backup store's query yields
    eco_rows,        \* the short_code values of ecommerce.product_variants
    csv_sc,          \* verify script: the values of main's variables
    json_sc,
    backup_sc,
    eco_sc,
    summary          \* the verdict lines of the SUMMARY section

simVars == <<ralawise_data, similarities, assessment>>
loadVars == <<has_pg, json_only, store, db_result, expected, err, load_status>>
discoverVars == <<local_tables, live_rows, schema, d_err, local_uneek, uneek_ids, ralawise_ids,
                  ral_err, overlaps, result_line>>
normVars == <<name_in, name_norm, name_norm2>>
verifyInputs == <<csv_exists, json_exists, csv_rows, backup_rows, eco_rows>>
verifyVars == <<verifyInputs, csv_sc, json_sc, backup_sc, eco_sc, summary>>
otherVars == <<normVars, verifyVars>>
vars == <<pc, uneek_products, simVars, loadVars, discoverVars, otherVars>>

SimIdle ==
    /\ ralawise_data = NoRalawiseData
    /\ similarities = EmptyMatches
    /\ assessment = NoAssessment
LoadIdle ==
    /\ has_pg = TRUE
    /\ json_only = FALSE
    /\ store = DownStore(EmptyStr)
    /\ db_result = NoDbResult
    /\ expected = 0
    /\ err = None
    /\ load_status = "none"
DiscoverOutputsIdle ==
    /\ schema = NoSchema
    /\ d_err = None
    /\ local_uneek = NoLocalResult
    /\ uneek_ids = NoUneekIds
    /\ ralawise_ids = NoIds
    /\ ral_err = None
    /\ overlaps = NoOverlaps
    /\ result_line = "none"
DiscoverIdle ==
    /\ local_tables = <<>>
    /\ live_rows = <<>>
    /\ DiscoverOutputsIdle
NormIdle ==
    /\ name_in = None
    /\ name_norm = None
    /\ name_norm2 = None
VerifyOutputsIdle ==
    /\ csv_sc = {}
    /\ json_sc = {}
    /\ backup_sc = {}
    /\ eco_sc = {}
    /\ summary = NoSummary
VerifyIdle ==
    /\ csv_exists = TRUE
    /\ json_exists = TRUE
    /\ csv_rows = <<>>
    /\ backup_rows = <<>>
    /\ eco_rows = <<>>
    /\ VerifyOutputsIdle
OtherIdle == NormIdle /\ VerifyIdle

\* ------------------------------------------------------------------------
\* Matching and assessment: find_similarities, then integration_assessment,
\* applied to a pair of catalogues
\* ------------------------------------------------------------------------
RalawiseInputs ==
    {NoRalawiseData} \cup {RalawiseData(s) : s \in SeqsUpTo(RalawisePool, MaxItems)}

Init ==
    /\ pc = "start"
    /\ uneek_products \in SeqsUpTo(UneekPool, MaxItems)
    /\ ralawise_data \in RalawiseInputs
    /\ similarities = EmptyMatches
    /\ assessment = NoAssessment
    /\ LoadIdle
    /\ DiscoverIdle
    /\ OtherIdle

FindSimilarities ==
    /\ pc = "start"
    /\ IF ~ralawise_data.is_none /\ SimilaritiesRaises(uneek_products, ralawise_data.products)
       THEN /\ pc' = "raised"
            /\ UNCHANGED similarities
       ELSE /\ pc' = "compared"
            /\ similarities' \in find_similarities(uneek_products, ralawise_data)
    /\ UNCHANGED <<uneek_products, ralawise_data, assessment, loadVars, discoverVars>>
    /\ UNCHANGED otherVars

IntegrationAssessment ==
    /\ pc = "compared"
    /\ assessment' = integration_assessment(analyze_uneek_structure(uneek_products),
                                            ralawise_data, similarities)
    /\ pc' = "assessed"
    /\ UNCHANGED <<uneek_products, ralawise_data, similarities, loadVars, discoverVars>>
    /\ UNCHANGED otherVars

Next == FindSimilarities \/ IntegrationAssessment

Spec == Init /\ [][Next]_vars

\* ------------------------------------------------------------------------
\* Load verification: step 2 of catalogue_analysis.py main
\* ------------------------------------------------------------------------
InitLoad ==
    /\ pc = "start"
    /\ uneek_products \in SeqsUpTo(UneekPool, MaxItems)
    /\ has_pg \in BOOLEAN
    /\ json_only \in BOOLEAN
    /\ store \in LocalStores
    /\ db_result = NoDbResult
    /\ expected = 0
    /\ err = None
    /\ load_status = "none"
    /\ SimIdle
    /\ DiscoverIdle
    /\ OtherIdle

\* lines 340-346: the call, or the values main substitutes for it
VerifyLoad ==
    /\ pc = "start"
    /\ \E r \in (IF json_only
                 THEN {VerifyReturn(NoDbResult, analyze_uneek_structure(uneek_products).total_skus, Skipped)}
                 ELSE verify_local_db_load(uneek_products, has_pg, store)) :
          /\ db_result' = r.db_result
          /\ expected' = r.expected
          /\ err' = r.err
    /\ pc' = "verified"
    /\ UNCHANGED <<uneek_products, simVars, discoverVars, has_pg, json_only, store, load_status>>
    /\ UNCHANGED otherVars

\* lines 347-366
ReportLoadStatus ==
    /\ pc = "verified"
    /\ load_status' = report_load_status(db_result, expected, err)
    /\ pc' = "reported"
    /\ UNCHANGED <<uneek_products, simVars, discoverVars, has_pg, json_only, store, db_result, expected, err>>
    /\ UNCHANGED otherVars

NextLoad == VerifyLoad \/ ReportLoadStatus

SpecLoad == InitLoad /\ [][NextLoad]_vars

\* ------------------------------------------------------------------------
\* discover_local_schema_and_overlaps.py : main.  Every connection attempt
\* succeeds or fails on its own.
\* ------------------------------------------------------------------------
catalogueIdle == <<simVars, json_only, store, db_result, expected, err, load_status>>

InitDiscover ==
    /\ pc = "start"
    /\ has_pg \in BOOLEAN
    /\ uneek_products \in SeqsUpTo(DiscoverUneekPool, MaxItems)
    /\ local_tables \in LocalSchemas
    /\ live_rows \in SeqsUpTo(LiveRowPool, MaxRows)
    /\ DiscoverOutputsIdle
    /\ SimIdle
    /\ json_only = FALSE
    /\ store = DownStore(EmptyStr)
    /\ db_result = NoDbResult
    /\ expected = 0
    /\ err = None
    /\ load_status = "none"
    /\ OtherIdle

\* lines 235-247: on an error main prints it and returns; schema["tables"]
\* raises when the error is an empty message and the schema None
DiscoverSchemaStep ==
    /\ pc = "start"
    /\ \E up \in BOOLEAN, reason \in FailureReasons :
          LET r == discover_local_schema(has_pg, up, reason, local_tables)
          IN  /\ schema' = r.schema
              /\ d_err' = r.err
              /\ pc' = IF Truthy(r.err) THEN "done"
                       ELSE IF r.schema.is_none THEN "raised"
                       ELSE "schema_printed"
    /\ UNCHANGED <<uneek_products, catalogueIdle, has_pg, local_tables, live_rows, local_uneek,
                   uneek_ids, ralawise_ids, ral_err, overlaps, result_line>>
    /\ UNCHANGED otherVars

\* lines 253-268
LocalUneekStep ==
    /\ pc = "schema_printed"
    /\ \E up1 \in BOOLEAN, up2 \in BOOLEAN, reason \in FailureReasons :
          LET r == get_local_uneek_identifiers(has_pg, up1, up2, reason, local_tables)
          IN  IF r.raised
              THEN /\ pc' = "raised"
                   /\ UNCHANGED <<local_uneek, d_err>>
              ELSE /\ pc' = "local_printed"
                   /\ local_uneek' = r.result
                   /\ d_err' = r.err
    /\ UNCHANGED <<uneek_products, catalogueIdle, has_pg, local_tables, live_rows, schema,
                   uneek_ids, ralawise_ids, ral_err, overlaps, result_line>>
    /\ UNCHANGED otherVars

\* lines 274-279: on an error main prints it and returns
FetchIdentifiersStep ==
    /\ pc = "local_printed"
    /\ uneek_ids' = load_uneek_identifiers(uneek_products)
    /\ \E up \in BOOLEAN, reason \in FailureReasons :
          LET r == fetch_ralawise_identifiers(has_pg, up, reason, live_rows)
          IN  /\ ralawise_ids' = r.ids
              /\ ral_err' = r.err
              /\ pc' = IF Truthy(r.err) THEN "done" ELSE "fetched"
    /\ UNCHANGED <<uneek_products, catalogueIdle, has_pg, local_tables, live_rows, schema, d_err,
                   local_uneek, overlaps, result_line>>
    /\ UNCHANGED otherVars

\* lines 281-305: ralawise_ids["style_codes"] raises on None
OverlapStep ==
    /\ pc = "fetched"
    /\ IF ralawise_ids.is_none
       THEN /\ pc' = "raised"
            /\ UNCHANGED <<overlaps, result_line>>
       ELSE /\ overlaps' = find_overlaps(uneek_ids, ralawise_ids)
            /\ result_line' = IF total_overlap(find_overlaps(uneek_ids, ralawise_ids)) = 0
                              THEN "no_overlap" ELSE "overlaps_found"
            /\ pc' = "done"
    /\ UNCHANGED <<uneek_products, catalogueIdle, has_pg, local_tables, live_rows, schema, d_err,
                   local_uneek, uneek_ids, ralawise_ids, ral_err>>
    /\ UNCHANGED otherVars

NextDiscover == DiscoverSchemaStep \/ LocalUneekStep \/ FetchIdentifiersStep \/ OverlapStep

SpecDiscover == InitDiscover /\ [][NextDiscover]_vars

\* ------------------------------------------------------------------------
\* normalize_name applied to a name, and again to its result
\* ------------------------------------------------------------------------
NameChars == {"a", "B", "7", " ", "!"}
NameInputs == {None, Missing} \cup SeqsUpTo(NameChars, MaxNameLen)
scriptsIdle == <<uneek_products, simVars, loadVars, discoverVars, verifyVars>>

InitNormalize ==
    /\ pc = "start"
    /\ name_in \in NameInputs
    /\ name_norm = None
    /\ name_norm2 = None
    /\ uneek_products = <<>>
    /\ SimIdle
    /\ LoadIdle
    /\ DiscoverIdle
    /\ VerifyIdle

\* normalize_name(p.get("ProductName", "")): a missing key gives ""
NormalizeName ==
    /\ pc = "start"
    /\ name_norm' = normalize_name(DictGetDefault([ProductName |-> name_in], "ProductName", EmptyStr))
    /\ pc' = "normalized"
    /\ UNCHANGED <<name_in, name_norm2, scriptsIdle>>

NormalizeAgain ==
    /\ pc = "normalized"
    /\ name_norm2' = normalize_name(name_norm)
    /\ pc' = "renormalized"
    /\ UNCHANGED <<name_in, name_norm, scriptsIdle>>

NextNormalize == NormalizeName \/ NormalizeAgain

SpecNormalize == InitNormalize /\ [][NextNormalize]_vars

\* ------------------------------------------------------------------------
\* verify_uneek_data.py : main.  Every connection attempt succeeds or fails
\* on its own.
\* ------------------------------------------------------------------------
verifyIdle == <<simVars, json_only, store, db_result, expected, load_status, discoverVars, normVars>>

InitVerify ==
    /\ pc = "start"
    /\ has_pg \in BOOLEAN
    /\ csv_exists \in BOOLEAN
    /\ json_exists \in BOOLEAN
    /\ csv_rows \in SeqsUpTo(CsvRowPool, MaxRows)
    /\ uneek_products \in SeqsUpTo(VerifyUneekPool, MaxItems)
    /\ backup_rows \in BackupStores
    /\ eco_rows \in EcoStores
    /\ VerifyOutputsIdle
    /\ err = None
    /\ json_only = FALSE
    /\ store = DownStore(EmptyStr)
    /\ db_result = NoDbResult
    /\ expected = 0
    /\ load_status = "none"
    /\ SimIdle
    /\ DiscoverIdle
    /\ NormIdle

\* lines 115-148: main returns when a file is missing
LoadCatalogues ==
    /\ pc = "start"
    /\ IF ~csv_exists
       THEN /\ pc' = "done"
            /\ UNCHANGED <<csv_sc, json_sc>>
       ELSE /\ csv_sc' = load_csv_shortcodes(csv_rows).shortcodes
            /\ IF ~json_exists
               THEN /\ pc' = "done"
                    /\ UNCHANGED json_sc
               ELSE /\ json_sc' = load_json_shortcodes(uneek_products).shortcodes
                    /\ pc' = "catalogues_printed"
    /\ UNCHANGED <<uneek_products, has_pg, err, verifyIdle, verifyInputs, backup_sc, eco_sc, summary>>

\* lines 150-168
BackupStep ==
    /\ pc = "catalogues_printed"
    /\ \E up \in BOOLEAN, reason \in FailureReasons :
          LET r == get_backup_uneek_shortcodes(has_pg, up, reason, backup_rows)
          IN  /\ backup_sc' = r.codes
              /\ err' = r.err
    /\ pc' = "backup_printed"
    /\ UNCHANGED <<uneek_products, has_pg, verifyIdle, verifyInputs, csv_sc, json_sc, eco_sc, summary>>

\* lines 170-184: the result is bound to the same name err
EcommerceStep ==
    /\ pc = "backup_printed"
    /\ \E up \in BOOLEAN, reason \in FailureReasons :
          LET r == get_ecommerce_uneek_shortcodes(has_pg, up, reason, eco_rows)
          IN  /\ eco_sc' = r.codes
              /\ err' = r.err
    /\ pc' = "eco_printed"
    /\ UNCHANGED <<uneek_products, has_pg, verifyIdle, verifyInputs, csv_sc, json_sc, backup_sc, summary>>

\* lines 186-204: line 199 queries the ecommerce store once more
SummaryStep ==
    /\ pc = "eco_printed"
    /\ \E up \in BOOLEAN, reason \in FailureReasons :
          summary' = verify_summary(csv_sc, json_sc, backup_sc, eco_sc, err,
                        get_ecommerce_uneek_shortcodes(has_pg, up, reason, eco_rows).err)
    /\ pc' = "done"
    /\ UNCHANGED <<uneek_products, has_pg, err, verifyIdle, verifyInputs, csv_sc, json_sc, backup_sc, eco_sc>>

NextVerify == LoadCatalogues \/ BackupStep \/ EcommerceStep \/ SummaryStep

SpecVerify == InitVerify /\ [][NextVerify]_vars

\* ------------------------------------------------------------------------
\* Properties of matching and assessment (specification Spec)
\* ------------------------------------------------------------------------
Compared == pc \in {"compared", "assessed"}
\* a code trimmed and upper-cased
NormKey(s) == PyUpper(PyStrip(s))
ExactLists == <<similarities.by_ean, similarities.by_shortcode_sku, similarities.by_style_code>>
Fuzzy == similarities.by_product_name_fuzzy
UneekNameOf(p) == normalize_name(DictGetDefault(p, "ProductName", EmptyStr))
UneekNormNames == {UneekNameOf(uneek_products[i]) : i \in DOMAIN uneek_products}
RalawiseNamed == {i \in DOMAIN ralawise_data.products : Truthy(ralawise_data.products[i].style_name)}
RalawiseNormNames == {normalize_name(ralawise_data.products[i].style_name) : i \in RalawiseNamed}

\* C1: the issues list and the recommendations list that integration_assessment
\* returns have the same length, whatever the overlap count and whether or
\* not there was a comparison catalogue.
C1_IssuesPairRecommendations ==
    pc = "assessed" => Len(assessment.issues) = Len(assessment.recommendations)

\* C3: no exact-match list of find_similarities (by EAN, by ShortCode/SKU, by
\* style code) contains the empty string.
C3_NoEmptyExactMatch ==
    Compared => \A k \in 1..3 : \A i \in DOMAIN ExactLists[k] : ExactLists[k][i] # EmptyStr

\* C6: each exact-match list is the intersection of the two canonicalized key
\* sets, every value once, in sorted order.
C6_ExactMatchIsSortedIntersection ==
    (Compared /\ ~ralawise_data.is_none) =>
        /\ similarities.by_ean =
              PySorted(uneek_eans(uneek_products) \cap ralawise_skus(ralawise_data.products))
        /\ similarities.by_shortcode_sku =
              PySorted(uneek_shortcodes(uneek_products) \cap ralawise_skus(ralawise_data.products))
        /\ similarities.by_style_code =
              PySorted(uneek_product_codes(uneek_products) \cap ralawise_style_codes(ralawise_data.products))

\* C8: the fuzzy pass records at most one pair per A-side normalized name: no
\* more pairs than distinct A-side normalized names, and no A-side name in two
\* pairs.
C8_AtMostOnePartner ==
    Compared =>
        /\ Len(Fuzzy) <= Cardinality(UneekNormNames)
        /\ \A i, j \in DOMAIN Fuzzy :
              i # j => normalize_name(Fuzzy[i].uneek) # normalize_name(Fuzzy[j].uneek)

\* an A-side name with two or more B-side candidates has been matched
C8_Witness ==
    /\ pc = "compared"
    /\ \E i \in DOMAIN Fuzzy :
          Cardinality({n \in RalawiseNormNames : NamesMatch(normalize_name(Fuzzy[i].uneek), n)}) >= 2

\* C9: no pair is recorded for an A-side name whose normalized form has fewer
\* than 5 characters, and the normalized names of every recorded pair are
\* equal or one contains the other.
C9_FuzzyMinLengthAndContainment ==
    Compared =>
        \A i \in DOMAIN Fuzzy :
            /\ Len(normalize_name(Fuzzy[i].uneek)) >= 5
            /\ NamesMatch(normalize_name(Fuzzy[i].uneek), normalize_name(Fuzzy[i].ralawise))

\* a short A-side name with an identical B-side name was compared and left
\* out, while a longer name of the same run was paired
C9_Witness ==
    /\ pc = "compared"
    /\ \E n \in UneekNormNames : n # EmptyStr /\ Len(n) < 5 /\ n \in RalawiseNormNames
    /\ Fuzzy # <<>>

\* C10: the item a fuzzy pair shows for a normalized name is the first item of
\* its catalogue with that normalized name.
C10_FirstSeenWins ==
    Compared =>
        \A i \in DOMAIN Fuzzy :
            \E a \in DOMAIN uneek_products, b \in RalawiseNamed :
                /\ UneekNameOf(uneek_products[a]) = normalize_name(Fuzzy[i].uneek)
                /\ \A k \in 1..(a - 1) : UneekNameOf(uneek_products[k]) # UneekNameOf(uneek_products[a])
                /\ Fuzzy[i].uneek = uneek_products[a].ProductName
                /\ Fuzzy[i].uneek_code = DictGet(uneek_products[a], "ProductCode")
                /\ normalize_name(ralawise_data.products[b].style_name) = normalize_name(Fuzzy[i].ralawise)
                /\ \A k \in RalawiseNamed :
                      k < b => normalize_name(ralawise_data.products[k].style_name)
                                  # normalize_name(ralawise_data.products[b].style_name)
                /\ Fuzzy[i].ralawise = ralawise_data.products[b].style_name
                /\ Fuzzy[i].ralawise_style = ralawise_data.products[b].style_code

\* the same records in every order
Reorderings(s) ==
    {[i \in DOMAIN s |-> s[p[i]]] : p \in {q \in [DOMAIN s -> DOMAIN s] : Range(q) = DOMAIN s}}
\* the pairs of a fuzzy result, as (A-side name, B-side name) in normalized form
PartnerNames(fz) ==
    {<<normalize_name(fz[i].uneek), normalize_name(fz[i].ralawise)>> : i \in DOMAIN fz}

\* C11: the B-side partner recorded for an A-side name depends only on the set
\* of B-side names: a run over the same B-side records in any other order
\* records the same partner for every A-side name.
C11_PartnerIndependentOfRecordOrder ==
    (Compared /\ ~ralawise_data.is_none) =>
        \A q \in Reorderings(ralawise_data.products) :
            PartnerNames(FuzzyMatches(uneek_product_names_norm(uneek_products),
                                      ralawise_style_names_norm(q)))
                = PartnerNames(Fuzzy)

\* the sum of the sizes of the three exact-match results of the run
ExactCount ==
    IF ralawise_data.is_none THEN 0
    ELSE Cardinality(Range(similarities.by_ean)) + Cardinality(Range(similarities.by_shortcode_sku))
            + Cardinality(Range(similarities.by_style_code))

\* C13: the overlap count of the assessment is the sum of the sizes of the
\* three exact-match results and leaves the fuzzy pairs out; the overlap
\* finding with the multi-supplier-SKU recommendation is emitted exactly when
\* the count is above 0, and otherwise (also without a comparison catalogue)
\* the no-strong-overlap recommendation to add the items as new is emitted.
C13_OverlapCountExcludesFuzzy ==
    pc = "assessed" =>
        /\ Len(assessment.recommendations) = 4
        /\ ExactCount > 0 <=>
              /\ Len(assessment.issues) = 4
              /\ assessment.issues[4] = Issue("overlaps", ExactCount, {})
              /\ assessment.recommendations[4] = "multi_supplier_sku"
        /\ ExactCount = 0 <=>
              /\ \A i \in DOMAIN assessment.issues : assessment.issues[i].tag # "overlaps"
              /\ assessment.recommendations[4] = "add_as_new"

\* the run recorded a fuzzy pair and no exact match, and was assessed
C13_Witness ==
    /\ pc = "assessed"
    /\ Fuzzy # <<>>
    /\ ExactCount = 0
    /\ assessment.recommendations[4] = "add_as_new"

\* a field of an item is absent: the key is missing or its value is null
Absent(p, f) == p[f] = Missing \/ p[f] = None
\* the ProductCode keys of the items that have one
PresentProductCodes ==
    {NormKey(uneek_products[i].ProductCode) :
        i \in {j \in DOMAIN uneek_products : ~Absent(uneek_products[j], "ProductCode")}}

\* C14: an item with a missing or null field is tolerated on both sides:
\* building the key sets and matching do not fail on it, and it contributes no
\* value to the key set of the absent field, so no exact match by style code
\* comes from an item without a ProductCode.
C14_AbsentFieldsTolerated ==
    /\ pc # "raised"
    /\ (Compared /\ ~ralawise_data.is_none) =>
          Range(similarities.by_style_code) \subseteq PresentProductCodes

\* ------------------------------------------------------------------------
\* Properties of load verification (specification SpecLoad)
\* ------------------------------------------------------------------------
Verified == pc \in {"verified", "reported"}
\* the canonical form of a code: trimmed and upper-cased
NormCode(s) == PyUpper(PyStrip(s))
ExpectedIds == {NormCode(c) : c \in verify_shortcodes(uneek_products)} \ {EmptyStr}
ObservedIds == {NormCode(c) : c \in db_skus(store) \ {None}} \ {EmptyStr}
\* the store was queried and could not be read
Unreadable == ~json_only /\ (~has_pg \/ ~store.reachable)

\* C2: the load is reported complete if and only if no expected identifier is
\* missing from the observed store and the observed count equals the expected
\* count.
C2_CompleteIffNothingMissing ==
    (pc = "reported" /\ ~db_result.is_none /\ err = None) =>
        (load_status = "complete" <=>
            (ExpectedIds \ ObservedIds = {} /\ db_result.products_count = expected))

\* C5: when the store cannot be read, verify_local_db_load returns no result
\* and a reason string instead of raising, and the run reports that the load
\* could not be verified, never complete, partial or absent.
C5_UnreadableIsUnknown ==
    (Verified /\ Unreadable) =>
        /\ db_result = NoDbResult
        /\ err # None
        /\ expected = Len(uneek_products)
        /\ pc = "reported" =>
              /\ load_status \in {"could_not_verify", "no_db_result"}
              /\ err # EmptyStr => load_status = "could_not_verify"

\* the driver is installed, the store refused the connection, and the run has
\* printed its verdict for a non-empty catalogue
C5_Witness ==
    /\ pc = "reported"
    /\ ~json_only /\ has_pg /\ ~store.reachable /\ store.reason = ConnRefused
    /\ uneek_products # <<>>
    /\ load_status = "could_not_verify"

\* C7: identifiers are compared in canonical form: the number of matching
\* ShortCodes is the number of expected codes that, trimmed and upper-cased,
\* equal an observed code trimmed and upper-cased.
C7_ComparesNormalized ==
    (Verified /\ ~db_result.is_none) =>
        db_result.matching_shortcodes = Cardinality(ExpectedIds \cap ObservedIds)

\* the store was read and a result came back
Obtained == pc = "reported" /\ ~db_result.is_none /\ ~Truthy(err)

\* C17: for every expected set and every observed set that was obtained,
\* exactly one of complete, partial and absent is reported: the three
\* conditions exclude each other and cover every case, a store with more rows
\* than expected and an empty store for an empty catalogue included.
C17_ExactlyOneStatus ==
    Obtained =>
        /\ load_status \in {"complete", "partial", "absent"}
        /\ load_status = "complete" <=> db_result.products_count = expected
        /\ load_status = "partial" <=>
              (db_result.products_count # expected /\ db_result.products_count > 0)
        /\ load_status = "absent" <=>
              (db_result.products_count # expected /\ db_result.products_count = 0)
        /\ (expected = 0 /\ store.rows = <<>>) => load_status = "complete"

\* the store holds every expected code and one more row, and got its verdict
C17_Witness ==
    /\ Obtained
    /\ uneek_products # <<>>
    /\ ExpectedIds # {}
    /\ verify_shortcodes(uneek_products) \subseteq db_skus(store)
    /\ Len(store.rows) > Len(uneek_products)
    /\ load_status = "partial"

\* C19: matching_eans is the number of expected EANs that are among the
\* observed sku codes, for every observed set; it is above 0 as soon as one
\* expected EAN is in the store, whatever the other stored codes look like.
C19_MatchingEansCountsPresent ==
    (Verified /\ ~db_result.is_none) =>
        db_result.matching_eans = Cardinality(verify_eans(uneek_products) \cap db_skus(store))

\* ------------------------------------------------------------------------
\* Properties of the discover run (specification SpecDiscover)
\* ------------------------------------------------------------------------
\* C4: whatever collaborators fail, a run does not raise and does not stop
\* early: when it ends, the overlap step has run and the RESULT line is
\* printed.
C4_RunAlwaysReachesReport ==
    /\ pc # "raised"
    /\ pc = "done" => result_line # "none"

\* C12: exact matching is commutative in content: matching the UNEEK
\* ProductCodes against the Ralawise style codes gives the same values as
\* matching the Ralawise style codes against the UNEEK ProductCodes.
C12_ExactMatchCommutes ==
    (pc = "done" /\ result_line # "none") =>
        /\ overlaps.product_code_in_ralawise_style_codes
              = overlaps.ralawise_style_code_in_uneek_product_codes
        /\ Range(overlaps.ralawise_style_code_in_uneek_product_codes)
              = {c \in uneek_ids.product_codes : c \in ralawise_ids.style_codes}

\* a run found a ProductCode among the style codes while the catalogues held
\* other codes on both sides
C12_Witness ==
    /\ pc = "done"
    /\ overlaps.product_code_in_ralawise_style_codes # <<>>
    /\ uneek_ids.product_codes \ ralawise_ids.style_codes # {}
    /\ ralawise_ids.style_codes \ uneek_ids.product_codes # {}

\* the EAN values as they are written in the JSON catalogue and in the table
\* the local scan read
JsonEans ==
    {uneek_products[i].EAN : i \in {j \in DOMAIN uneek_products : Truthy(DictGet(uneek_products[j], "EAN"))}}
ScannedTables ==
    {i \in DOMAIN local_tables : local_tables[i].name = local_uneek.table /\ local_uneek.error = None}
StoredEans ==
    UNION {ColumnValues(local_tables[i].rows, ColumnFor(local_tables[i].columns, KeyEan, KeyEan)) :
            i \in ScannedTables}
\* two values are the same EAN up to surrounding blanks and leading zeros
SameEan(a, b) ==
    /\ LStripZeros(PyStrip(a)) # EmptyStr
    /\ LStripZeros(PyStrip(a)) = LStripZeros(PyStrip(b))

\* C16: numeric codes are normalized the same way on both sides: an EAN of the
\* JSON catalogue and an EAN of the local store that differ only in blanks and
\* leading zeros get the same key, which is trimmed and without zero padding.
C16_EanKeysNormalizedAlike ==
    (pc \in {"fetched", "done"} /\ ~local_uneek.is_none) =>
        \A a \in JsonEans, b \in StoredEans :
            SameEan(a, b) =>
                \E k \in uneek_ids.eans \cap local_uneek.eans :
                    /\ SameEan(k, a)
                    /\ k = PyStrip(k)
                    /\ (Len(k) > 1 => Head(k) # "0")

\* ------------------------------------------------------------------------
\* Properties of normalize_name (specification SpecNormalize)
\* ------------------------------------------------------------------------
\* C15: normalize_name is idempotent and total: normalizing a result gives the
\* same result; a result holds only lowercase letters, digits and single
\* blanks, with no blank at either end; absent or empty input gives "".
C15_NormalizeNameIdempotent ==
    /\ pc = "renormalized" => name_norm2 = name_norm
    /\ pc \in {"normalized", "renormalized"} =>
          /\ \A i \in DOMAIN name_norm : IsLowerAlnum(name_norm[i]) \/ name_norm[i] = " "
          /\ \A i \in DOMAIN name_norm : name_norm[i] = " " => (i > 1 /\ i < Len(name_norm))
          /\ \A i \in 1..(Len(name_norm) - 1) : ~(name_norm[i] = " " /\ name_norm[i + 1] = " ")
          /\ name_in \in {None, Missing, EmptyStr} => name_norm = EmptyStr

\* a name with an upper-case letter and two blanks in a row between its words
\* was normalized twice
C15_Witness ==
    /\ pc = "renormalized"
    /\ name_in \notin {None, Missing}
    /\ \E i \in 1..(Len(name_in) - 1) : name_in[i] = " " /\ name_in[i + 1] = " "
    /\ "B" \in Range(name_in)
    /\ Len(name_norm) = 3

\* ------------------------------------------------------------------------
\* Properties of the verification run (specification SpecVerify)
\* ------------------------------------------------------------------------
\* C18: the summary prints a store's verdict if and only if the identifier
\* set of that store was obtained and is not empty at the step that queried
\* it: a failure of the ecommerce store does not suppress the backup store's
\* verdict, and the ecommerce verdict does not depend on a later query.
C18_VerdictIffStoreObtained ==
    (pc = "done" /\ summary.printed) =>
        /\ summary.backup # "none" <=> backup_sc # {}
        /\ summary.eco # "none" <=> eco_sc # {}
====
